---- MODULE Spec2Model ----
\* A state-machine model of jimbo-cam.py: the start-up sequence of the
\* __main__ block and main(), the capture / upload / back-off loop of main(),
\* the signal handler _stop, and the pure helpers get_or_create_fingerprint
\* and configure_autofocus.  Strings whose content is inspected by the code
\* (the fingerprint file, the lens position) are sequences of one-character
\* strings, so that strip() and float() are computed and not assumed.
EXTENDS Integers, Sequences, FiniteSets, TLC

VARIABLES
    INTERVAL_SEC,       \* line 27
    PRUSA_TOKEN,        \* line 25
    PRUSA_FINGERPRINT,  \* line 26
    PRUSA_AF_MODE,      \* line 33
    PRUSA_AF_POSITION,  \* line 34
    args_af,            \* args.af of line 283 as [n, mode, pos]; n = 0 when absent
    fsWritable,         \* whether CONFIG_DIR can be created and written
    file,               \* FINGERPRINT_FILE: [exists, text]
    pc,                 \* position of the main thread
    exc,                \* the exception in flight, "none" when there is none
    exitStatus,         \* process exit status, -1 while the process runs
    running,            \* the module-level flag of line 225
    fingerprint,        \* main()'s local of line 243
    picam0,             \* the Picamera2 object of line 282
    picam,              \* the Picamera2 object of line 246
    backoff,            \* main()'s local of line 250
    i,                  \* number of completed iterations of the for of line 267
    jpeg,               \* main()'s local of line 253
    resp,               \* status code of upload_snapshot's resp, 0 when none
    lastOutcome,        \* history: how the latest cycle ended
    stopAt,             \* history: pc at which the first stop signal arrived
    sleepsSinceStop,    \* history: time.sleep(1) calls completed since then
    capturesSinceStop,  \* history: capture_jpeg calls begun since then
    calls,              \* history of get_or_create_fingerprint calls
    cycleOps,           \* history: what the current cycle has done so far
    jpegUploads         \* history: times the snapshot held in jpeg was submitted

vars == << INTERVAL_SEC, PRUSA_TOKEN, PRUSA_FINGERPRINT, PRUSA_AF_MODE,
           PRUSA_AF_POSITION, args_af, fsWritable, file, pc, exc, exitStatus,
           running, fingerprint, picam0, picam, backoff, i, jpeg, resp,
           lastOutcome, stopAt, sleepsSinceStop, capturesSinceStop, calls,
           cycleOps, jpegUploads >>

\* ------------------------------------------------------------------ bounds

\* History counters stop counting here.
CountCap == 3
\* Calls of get_or_create_fingerprint made in a row by SpecFP.
MaxCalls == 2
\* Longest fingerprint file text drawn by SpecFP.
MaxFileLen == 3

\* ------------------------------------------------------- python built-ins

Min(a, b) == IF a < b THEN a ELSE b
Max(a, b) == IF a > b THEN a ELSE b

Whitespace == {" ", "\n"}

RECURSIVE LStrip(_)
LStrip(s) ==
    IF s = << >> THEN s
    ELSE IF Head(s) \in Whitespace THEN LStrip(Tail(s)) ELSE s

RECURSIVE RStrip(_)
RStrip(s) ==
    IF s = << >> THEN s
    ELSE IF s[Len(s)] \in Whitespace THEN RStrip(SubSeq(s, 1, Len(s) - 1)) ELSE s

\* str.strip()
Strip(s) == RStrip(LStrip(s))

\* str.lower() on the mode words the model draws
Lower(m) ==
    CASE m = "MAN"  -> "man"
      [] m = "Cont" -> "cont"
      [] m = "AUTO" -> "auto"
      [] OTHER      -> m

Digits == {"0", "1", "2", "3", "4", "5", "6", "7", "8", "9"}

DigitVal(c) ==
    CASE c = "0" -> 0 [] c = "1" -> 1 [] c = "2" -> 2 [] c = "3" -> 3
      [] c = "4" -> 4 [] c = "5" -> 5 [] c = "6" -> 6 [] c = "7" -> 7
      [] c = "8" -> 8 [] c = "9" -> 9

RECURSIVE DigitsValue(_)
DigitsValue(s) ==
    IF s = << >> THEN 0
    ELSE 10 * DigitsValue(SubSeq(s, 1, Len(s) - 1)) + DigitVal(s[Len(s)])

\* A decimal m / 10^k with the trailing zeros of the fraction removed, so that
\* "1.2" and "1.20" denote the same number.
RECURSIVE Normalise(_, _)
Normalise(m, k) ==
    IF k > 0 /\ m % 10 = 0 THEN Normalise(m \div 10, k - 1)
    ELSE [mant |-> m, scale |-> k]

NotANumber == [ok |-> FALSE, kind |-> "none", neg |-> FALSE, mant |-> 0, scale |-> 0]

Finite(neg, m, k) ==
    [ok |-> TRUE, kind |-> "finite", neg |-> neg,
     mant |-> Normalise(m, k).mant, scale |-> Normalise(m, k).scale]

Special(kind, neg) ==
    [ok |-> TRUE, kind |-> kind, neg |-> neg, mant |-> 0, scale |-> 0]

\* float(str) for the decimal literals without exponent: surrounding
\* whitespace, an optional sign, then "inf", "nan", or digits with at most one
\* point and at least one digit.  ok = FALSE stands for ValueError.
ParseFloat(s) ==
    LET t     == Strip(s)
        signed == t # << >> /\ Head(t) \in {"+", "-"}
        neg   == t # << >> /\ Head(t) = "-"
        body  == IF signed THEN Tail(t) ELSE t
        dots  == {j \in 1..Len(body) : body[j] = "."}
        p     == IF dots = {} THEN Len(body) + 1 ELSE CHOOSE j \in dots : TRUE
        whole == SubSeq(body, 1, p - 1)
        frac  == SubSeq(body, p + 1, Len(body))
        isDigits(x) == \A j \in 1..Len(x) : x[j] \in Digits
    IN  IF body = <<"i", "n", "f">> THEN Special("inf", neg)
        ELSE IF body = <<"n", "a", "n">> THEN Special("nan", neg)
        ELSE IF /\ Cardinality(dots) <= 1
                /\ isDigits(whole) /\ isDigits(frac)
                /\ Len(whole) + Len(frac) >= 1
             THEN Finite(neg, DigitsValue(whole \o frac), Len(frac))
             ELSE NotANumber

\* ------------------------------------------------------------- exceptions

\* Classes of the exceptions the model raises.  SystemExit derives from
\* BaseException, not from Exception; all the others are Exception subclasses.
IsException(e) == e \in {"ValueError", "OSError", "RuntimeError", "HTTPError", "ConnectionError"}

\* `except requests.HTTPError` of line 256
IsHTTPError(e) == e = "HTTPError"

\* ------------------------------------------------- get_or_create_fingerprint

NoFile == [exists |-> FALSE, text |-> << >>]

UUIDs == {<<"a", "1">>, <<"f", "0">>}

\* Variant: the generated value is returned without being written (no line 154).
get_or_create_fingerprint_unsaved(f, writable, uuid) ==
    LET fp == IF f.exists THEN Strip(f.text) ELSE << >>
    IN  IF ~f.exists /\ ~writable
        THEN [raised |-> "OSError", ret |-> << >>, file |-> f]
        ELSE IF f.exists /\ fp # << >>
        THEN [raised |-> "none", ret |-> fp, file |-> f]
        ELSE [raised |-> "none", ret |-> uuid, file |-> f]

\* Variant: a failure to create or write the file is swallowed and the
\* generated value is returned all the same.
get_or_create_fingerprint_unpersisted(f, writable, uuid) ==
    LET fp == IF f.exists THEN Strip(f.text) ELSE << >>
    IN  IF f.exists /\ fp # << >>
        THEN [raised |-> "none", ret |-> fp, file |-> f]
        ELSE [raised |-> "none", ret |-> uuid,
              file |-> IF writable THEN [exists |-> TRUE, text |-> uuid] ELSE f]

\* Lines 146-156.  f is FINGERPRINT_FILE, writable says whether its directory
\* can be created and written, uuid is the value uuid.uuid4().hex yields.
\* The result holds the exception raised ("none" on return), the value
\* returned and the file afterwards.
get_or_create_fingerprint(f, writable, uuid) ==
    LET fp == IF f.exists THEN Strip(f.text) ELSE << >>
    IN  IF ~f.exists /\ ~writable
        THEN [raised |-> "OSError", ret |-> << >>, file |-> f]     \* mkdir, line 147
        ELSE IF f.exists /\ fp # << >>
        THEN [raised |-> "none", ret |-> fp, file |-> f]           \* lines 148-152
        ELSE IF ~writable
        THEN [raised |-> "OSError", ret |-> << >>, file |-> f]     \* write_text, line 154
        ELSE [raised |-> "none", ret |-> uuid,
              file |-> [exists |-> TRUE, text |-> uuid]]          \* lines 153-156

\* ------------------------------------------------------- configure_autofocus

NoCamera == [made |-> FALSE, AfMode |-> "unset", LensPosition |-> NotANumber, started |-> FALSE]

\* Picamera2()
NewCamera == [made |-> TRUE, AfMode |-> "unset", LensPosition |-> NotANumber, started |-> FALSE]

NoArgsAf == [n |-> 0, mode |-> "", pos |-> << >>]

\* Variant: manual mode applies the position without the checks of lines 208-213.
configure_autofocus_unvalidated(cam, cli_af, envMode, envPos) ==
    LET mode == IF cli_af.n > 0 THEN Lower(cli_af.mode) ELSE envMode
        pos  == IF cli_af.n > 0
                THEN (IF cli_af.n > 1 THEN cli_af.pos ELSE << >>)
                ELSE envPos
    IN  IF mode \in {"cont", "continuous"}
        THEN [raised |-> "none", cam |-> [cam EXCEPT !.AfMode = "Continuous"]]
        ELSE IF mode \in {"auto", "af"}
        THEN [raised |-> "none", cam |-> [cam EXCEPT !.AfMode = "Auto"]]
        ELSE IF mode \in {"man", "manual"}
        THEN [raised |-> "none",
              cam |-> [cam EXCEPT !.AfMode = "Manual", !.LensPosition = ParseFloat(pos)]]
        ELSE [raised |-> "ValueError", cam |-> cam]

\* Lines 193-222.  cli_af is args.af as [n, mode, pos]: n is the number of
\* words given (0 when --af is absent), mode the first and pos the second.
\* An absent position (None) is the empty text: the code only tests `not pos`.
configure_autofocus(cam, cli_af, envMode, envPos) ==
    LET mode == IF cli_af.n > 0 THEN Lower(cli_af.mode) ELSE envMode
        pos  == IF cli_af.n > 0
                THEN (IF cli_af.n > 1 THEN cli_af.pos ELSE << >>)
                ELSE envPos
        lens_pos == ParseFloat(pos)
    IN  IF mode \in {"cont", "continuous"}
        THEN [raised |-> "none", cam |-> [cam EXCEPT !.AfMode = "Continuous"]]
        ELSE IF mode \in {"auto", "af"}
        THEN [raised |-> "none", cam |-> [cam EXCEPT !.AfMode = "Auto"]]
        ELSE IF mode \in {"man", "manual"}
        THEN IF pos = << >>
             THEN [raised |-> "ValueError", cam |-> cam]           \* line 209
             ELSE IF ~lens_pos.ok
             THEN [raised |-> "ValueError", cam |-> cam]           \* line 213
             ELSE [raised |-> "none",
                   cam |-> [cam EXCEPT !.AfMode = "Manual", !.LensPosition = lens_pos]]
        ELSE [raised |-> "ValueError", cam |-> cam]                \* line 222

\* ------------------------------------------------------------ back-off policy

LowerBound == 15
UpperBound == 120

\* Variant: the upper clamp is left out.
FailureBackoff_unclamped(base) == Max(base * 3, LowerBound)

\* Variant: the interval is tripled from the previous interval.
FailureBackoff_compounding(base) == Min(Max(backoff * 3, LowerBound), UpperBound)

\* Lines 261 and 264: min(max(INTERVAL_SEC * 3, 15), 120)
FailureBackoff(base) == Min(Max(base * 3, LowerBound), UpperBound)

\* Variant: a success leaves the interval as it was.
SuccessBackoff_keeps(base) == backoff

\* Line 255
SuccessBackoff(base) == base

\* Line 189, Response.raise_for_status: HTTPError for 400 <= status < 600
RaisesForStatus(status) == 400 <= status /\ status < 600

\* ------------------------------------------------------------------ inputs

\* PRUSA_INTERVAL_SEC values drawn: below the lower bound, the default, one
\* whose triple exceeds the upper bound, the upper bound, and one above it.
BaseIntervals == {1, 10, 50, 120, 121}

\* Raw PRUSA_TOKEN values, before the strip() of line 25
RawTokens == {<< >>, <<" ">>, <<"t", "k">>}

\* (args.af, raw PRUSA_AF_MODE, raw PRUSA_AF_POSITION) triples drawn
AfInputs ==
    { [af |-> NoArgsAf, mode |-> "cont", pos |-> << >>],
      [af |-> NoArgsAf, mode |-> "AUTO", pos |-> << >>],
      [af |-> NoArgsAf, mode |-> "man",  pos |-> <<"1", ".", "2">>],
      [af |-> NoArgsAf, mode |-> "man",  pos |-> <<" ">>],
      [af |-> NoArgsAf, mode |-> "man",  pos |-> <<"a", "b">>],
      [af |-> NoArgsAf, mode |-> "man",  pos |-> <<"1", ".", "2", ".">>],
      [af |-> NoArgsAf, mode |-> "man",  pos |-> <<"i", "n", "f">>],
      [af |-> NoArgsAf, mode |-> "focus", pos |-> << >>],
      [af |-> [n |-> 2, mode |-> "MAN", pos |-> <<" ", "0", "7", ".", "5", "0">>],
       mode |-> "cont", pos |-> << >>],
      [af |-> [n |-> 1, mode |-> "man", pos |-> << >>],
       mode |-> "man", pos |-> <<"1", ".", "2">>],
      [af |-> [n |-> 2, mode |-> "manual", pos |-> <<"x">>],
       mode |-> "cont", pos |-> << >>],
      [af |-> [n |-> 1, mode |-> "Cont", pos |-> << >>],
       mode |-> "man", pos |-> <<"a", "b">>] }

\* (raw PRUSA_FINGERPRINT, FINGERPRINT_FILE, directory writable) triples drawn
IdInputs ==
    { [explicit |-> <<"e", "9">>, file |-> NoFile, writable |-> TRUE],
      [explicit |-> <<" ", "e", "9">>, file |-> NoFile, writable |-> FALSE],
      [explicit |-> <<"e", "9">>,
       file |-> [exists |-> TRUE, text |-> <<"a", "1">>], writable |-> TRUE],
      [explicit |-> << >>, file |-> NoFile, writable |-> TRUE],
      [explicit |-> << >>, file |-> NoFile, writable |-> FALSE],
      [explicit |-> <<" ">>,
       file |-> [exists |-> TRUE, text |-> <<" ", "\n">>], writable |-> TRUE],
      [explicit |-> << >>,
       file |-> [exists |-> TRUE, text |-> << >>], writable |-> FALSE],
      [explicit |-> << >>,
       file |-> [exists |-> TRUE, text |-> <<"f", "0", "\n">>], writable |-> TRUE],
      [explicit |-> << >>,
       file |-> [exists |-> TRUE, text |-> <<"a", "1">>], writable |-> FALSE] }

\* HTTP status codes a response may carry
Statuses == {101, 200, 204, 304, 401, 500, 599}

\* ------------------------------------------------------------ initial state

\* The state when the __main__ block is entered: lines 17-35 have read the
\* environment, line 225 has set running and lines 234-235 have installed _stop.
Init ==
    /\ INTERVAL_SEC \in BaseIntervals
    /\ \E t \in RawTokens : PRUSA_TOKEN = Strip(t)
    /\ \E a \in AfInputs :
          /\ args_af = a.af
          /\ PRUSA_AF_MODE = Lower(a.mode)
          /\ PRUSA_AF_POSITION = Strip(a.pos)
    /\ \E d \in IdInputs :
          /\ PRUSA_FINGERPRINT = Strip(d.explicit)
          /\ file = d.file
          /\ fsWritable = d.writable
    /\ pc = "parse_args"
    /\ exc = "none"
    /\ exitStatus = -1
    /\ running = TRUE
    /\ fingerprint = << >>
    /\ picam0 = NoCamera
    /\ picam = NoCamera
    /\ backoff = 0
    /\ i = 0
    /\ jpeg = "unset"
    /\ resp = 0
    /\ lastOutcome = "none"
    /\ stopAt = "none"
    /\ sleepsSinceStop = 0
    /\ capturesSinceStop = 0
    /\ calls = << >>
    /\ cycleOps = [captured |-> FALSE, uploads |-> 0]
    /\ jpegUploads = 0

config == << INTERVAL_SEC, PRUSA_TOKEN, PRUSA_FINGERPRINT, PRUSA_AF_MODE,
             PRUSA_AF_POSITION, args_af, fsWritable >>

history == << lastOutcome, stopAt, sleepsSinceStop, capturesSinceStop, calls,
              cycleOps, jpegUploads >>

\* A cycle that has neither captured nor submitted anything
NewCycle == [captured |-> FALSE, uploads |-> 0]

loopLocals == << backoff, i, jpeg, resp >>

\* ------------------------------------------------------------------ start-up

\* Lines 276-282: parse_args() without --setup, then picam = Picamera2()
MakeOuterCamera ==
    /\ pc = "parse_args"
    /\ picam0' = NewCamera
    /\ pc' = "configure_autofocus"
    /\ UNCHANGED << config, file, exc, exitStatus, running, fingerprint, picam,
                    loopLocals, history >>

\* Line 283: configure_autofocus(picam, args.af)
ConfigureAutofocus ==
    /\ pc = "configure_autofocus"
    /\ LET r == configure_autofocus(picam0, args_af, PRUSA_AF_MODE, PRUSA_AF_POSITION)
       IN  /\ picam0' = r.cam
           /\ exc' = r.raised
           /\ pc' = IF r.raised = "none" THEN "main" ELSE "startup_except"
    /\ UNCHANGED << config, file, exitStatus, running, fingerprint, picam,
                    loopLocals, history >>

\* Variant: main() without the check of lines 239-241.
CheckToken_noCheck ==
    /\ pc = "main"
    /\ pc' = "fingerprint"
    /\ UNCHANGED << config, file, exc, exitStatus, running, fingerprint, picam0, picam,
                    loopLocals, history >>

\* Lines 239-241: the token check of main()
CheckToken ==
    /\ pc = "main"
    /\ IF PRUSA_TOKEN = << >>
       THEN exc' = "SystemExit" /\ pc' = "startup_except"
       ELSE exc' = exc /\ pc' = "fingerprint"
    /\ UNCHANGED << config, file, exitStatus, running, fingerprint, picam0, picam,
                    loopLocals, history >>

\* Variant: line 243 calls get_or_create_fingerprint() first and lets the
\* explicit value override what it returned.
ObtainFingerprint_fileFirst ==
    /\ pc = "fingerprint"
    /\ \E uuid \in UUIDs :
          LET r == get_or_create_fingerprint(file, fsWritable, uuid)
          IN  /\ file' = r.file
              /\ exc' = r.raised
              /\ fingerprint' = IF r.raised # "none" THEN fingerprint
                                ELSE IF PRUSA_FINGERPRINT # << >> THEN PRUSA_FINGERPRINT
                                ELSE r.ret
              /\ pc' = IF r.raised = "none" THEN "make_camera" ELSE "startup_except"
              /\ calls' = Append(calls, [raised |-> r.raised, ret |-> r.ret,
                                         before |-> file, after |-> r.file])
    /\ UNCHANGED << config, exitStatus, running, picam0, picam, loopLocals,
                    lastOutcome, stopAt, sleepsSinceStop, capturesSinceStop,
                    cycleOps, jpegUploads >>

\* Line 243: fingerprint = PRUSA_FINGERPRINT or get_or_create_fingerprint()
ObtainFingerprint ==
    /\ pc = "fingerprint"
    /\ IF PRUSA_FINGERPRINT # << >>
       THEN /\ fingerprint' = PRUSA_FINGERPRINT
            /\ pc' = "make_camera"
            /\ UNCHANGED << file, exc, calls >>
       ELSE \E uuid \in UUIDs :
              LET r == get_or_create_fingerprint(file, fsWritable, uuid)
              IN  /\ file' = r.file
                  /\ exc' = r.raised
                  /\ fingerprint' = IF r.raised = "none" THEN r.ret ELSE fingerprint
                  /\ pc' = IF r.raised = "none" THEN "make_camera" ELSE "startup_except"
                  /\ calls' = Append(calls, [raised |-> r.raised, ret |-> r.ret,
                                             before |-> file, after |-> r.file])
    /\ UNCHANGED << config, exitStatus, running, picam0, picam, loopLocals,
                    lastOutcome, stopAt, sleepsSinceStop, capturesSinceStop,
                    cycleOps, jpegUploads >>

\* Lines 246-247: picam = Picamera2(); picam.set_controls(AfMode Continuous)
MakeLoopCamera ==
    /\ pc = "make_camera"
    /\ picam' = [NewCamera EXCEPT !.AfMode = "Continuous"]
    /\ pc' = "init_backoff"
    /\ UNCHANGED << config, file, exc, exitStatus, running, fingerprint, picam0,
                    loopLocals, history >>

\* Line 250
InitBackoff ==
    /\ pc = "init_backoff"
    /\ backoff' = INTERVAL_SEC
    /\ pc' = "while"
    /\ UNCHANGED << config, file, exc, exitStatus, running, fingerprint, picam0,
                    picam, i, jpeg, resp, history >>

\* Lines 285-287: an Exception raised by lines 282-284 is logged and the
\* process exits with status 1.
StartupExcept ==
    /\ pc = "startup_except"
    /\ IsException(exc)
    /\ exitStatus' = 1
    /\ pc' = "exited"
    /\ UNCHANGED << config, file, exc, running, fingerprint, picam0, picam,
                    loopLocals, history >>

\* SystemExit is no Exception: it passes line 285 and ends the interpreter,
\* which prints its message and exits with status 1.
UncaughtSystemExit ==
    /\ pc = "startup_except"
    /\ ~IsException(exc)
    /\ exitStatus' = 1
    /\ pc' = "exited"
    /\ UNCHANGED << config, file, exc, running, fingerprint, picam0, picam,
                    loopLocals, history >>

\* -------------------------------------------------------- the loop of main()

startup == << config, file, exitStatus, fingerprint, picam0 >>

\* An exception raised inside the try of lines 252-255 reaches the except
\* clauses of lines 256 and 262.
Raise(e) == exc' = e /\ pc' = "except"

Bump(n) == Min(n + 1, CountCap)

\* Variant: after a failed upload the next cycle submits the snapshot it
\* still holds instead of capturing.
While_retriesUnsent ==
    /\ pc = "while"
    /\ pc' = IF ~running THEN "exiting"
             ELSE IF lastOutcome \in {"http_error", "transport_error"} THEN "upload"
             ELSE "capture"
    /\ cycleOps' = IF running THEN NewCycle ELSE cycleOps
    /\ UNCHANGED << startup, exc, running, picam, loopLocals, lastOutcome, stopAt,
                    sleepsSinceStop, capturesSinceStop, calls, jpegUploads >>

\* Variant: `while True`, the loop condition does not look at running.
While_unconditional ==
    /\ pc = "while"
    /\ pc' = "capture"
    /\ cycleOps' = NewCycle
    /\ UNCHANGED << startup, exc, running, picam, loopLocals, lastOutcome, stopAt,
                    sleepsSinceStop, capturesSinceStop, calls, jpegUploads >>

\* Line 251: while running
While ==
    /\ pc = "while"
    /\ pc' = IF running THEN "capture" ELSE "exiting"
    /\ cycleOps' = IF running THEN NewCycle ELSE cycleOps
    /\ UNCHANGED << startup, exc, running, picam, loopLocals, lastOutcome, stopAt,
                    sleepsSinceStop, capturesSinceStop, calls, jpegUploads >>

\* Line 253 calls capture_jpeg; lines 160-167 configure the camera.
CaptureConfigure ==
    /\ pc = "capture"
    /\ \/ pc' = "cap_start" /\ exc' = exc
       \/ Raise("RuntimeError")
    /\ capturesSinceStop' = IF stopAt = "none" THEN 0 ELSE Bump(capturesSinceStop)
    /\ UNCHANGED << startup, running, picam, loopLocals, lastOutcome, stopAt,
                    sleepsSinceStop, calls, cycleOps, jpegUploads >>

\* Line 170: picam.start()
CaptureStart ==
    /\ pc = "cap_start"
    /\ \/ /\ picam' = [picam EXCEPT !.started = TRUE]
          /\ pc' = "cap_capture" /\ exc' = exc
       \/ Raise("RuntimeError") /\ picam' = picam
    /\ UNCHANGED << startup, running, loopLocals, history >>

\* Lines 171-172: the settle delay and picam.capture_file
CaptureFile ==
    /\ pc = "cap_capture"
    /\ \/ pc' = "cap_stop" /\ exc' = exc
       \/ Raise("RuntimeError")
    /\ UNCHANGED << startup, running, picam, loopLocals, history >>

\* Line 173: picam.stop()
CaptureStop ==
    /\ pc = "cap_stop"
    /\ picam' = [picam EXCEPT !.started = FALSE]
    /\ pc' = "cap_read"
    /\ UNCHANGED << startup, exc, running, loopLocals, history >>

\* Variant: a failure to read the file back is swallowed and the upload goes
\* ahead with whatever jpeg holds.
CaptureRead_uploadsAnyway ==
    /\ pc = "cap_read"
    /\ \/ /\ jpeg' = "bytes" /\ pc' = "upload" /\ exc' = exc
          /\ cycleOps' = [cycleOps EXCEPT !.captured = TRUE]
          /\ jpegUploads' = 0
       \/ pc' = "upload" /\ UNCHANGED << exc, jpeg, cycleOps, jpegUploads >>
    /\ UNCHANGED << startup, running, picam, backoff, i, resp, lastOutcome, stopAt,
                    sleepsSinceStop, capturesSinceStop, calls >>

\* Lines 174-177: read the file back and return the bytes to line 253
CaptureRead ==
    /\ pc = "cap_read"
    /\ \/ /\ jpeg' = "bytes" /\ pc' = "upload" /\ exc' = exc
          /\ cycleOps' = [cycleOps EXCEPT !.captured = TRUE]
          /\ jpegUploads' = 0
       \/ Raise("OSError") /\ UNCHANGED << jpeg, cycleOps, jpegUploads >>
    /\ UNCHANGED << startup, running, picam, backoff, i, resp, lastOutcome, stopAt,
                    sleepsSinceStop, capturesSinceStop, calls >>

\* Line 254 calls upload_snapshot; lines 181-188 send the request, which
\* either fails in transport or yields a response.
UploadPut ==
    /\ pc = "upload"
    /\ \/ \E status \in Statuses :
             resp' = status /\ pc' = "raise_for_status" /\ exc' = exc
       \/ Raise("ConnectionError") /\ resp' = resp
    /\ cycleOps' = [cycleOps EXCEPT !.uploads = Bump(cycleOps.uploads)]
    /\ jpegUploads' = Bump(jpegUploads)
    /\ UNCHANGED << startup, running, picam, backoff, i, jpeg, lastOutcome, stopAt,
                    sleepsSinceStop, capturesSinceStop, calls >>

\* Lines 189-190: resp.raise_for_status(), then return to line 254
UploadRaiseForStatus ==
    /\ pc = "raise_for_status"
    /\ IF RaisesForStatus(resp)
       THEN Raise("HTTPError")
       ELSE pc' = "reset" /\ exc' = exc
    /\ UNCHANGED << startup, running, picam, loopLocals, history >>

\* Line 255
ResetBackoff ==
    /\ pc = "reset"
    /\ backoff' = SuccessBackoff(INTERVAL_SEC)
    /\ lastOutcome' = "success"
    /\ pc' = "log_next"
    /\ UNCHANGED << startup, exc, running, picam, i, jpeg, resp, stopAt,
                    sleepsSinceStop, capturesSinceStop, calls, cycleOps, jpegUploads >>

\* Variant: no except clause for HTTPError; it leaves main() for line 285.
ExceptHTTPError_propagates ==
    /\ pc = "except"
    /\ IsHTTPError(exc)
    /\ pc' = "startup_except"
    /\ UNCHANGED << startup, exc, running, picam, loopLocals, history >>

\* Lines 256-261
ExceptHTTPError ==
    /\ pc = "except"
    /\ IsHTTPError(exc)
    /\ backoff' = FailureBackoff(INTERVAL_SEC)
    /\ exc' = "none"
    /\ lastOutcome' = "http_error"
    /\ pc' = "log_next"
    /\ UNCHANGED << startup, running, picam, i, jpeg, resp, stopAt,
                    sleepsSinceStop, capturesSinceStop, calls, cycleOps, jpegUploads >>

\* Variant: no catch-all except clause; the exception leaves main() for line 285.
ExceptException_propagates ==
    /\ pc = "except"
    /\ ~IsHTTPError(exc)
    /\ IsException(exc)
    /\ pc' = "startup_except"
    /\ UNCHANGED << startup, exc, running, picam, loopLocals, history >>

\* Lines 262-264
ExceptException ==
    /\ pc = "except"
    /\ ~IsHTTPError(exc)
    /\ IsException(exc)
    /\ backoff' = FailureBackoff(INTERVAL_SEC)
    /\ exc' = "none"
    /\ lastOutcome' = IF exc = "ConnectionError" THEN "transport_error" ELSE "capture_error"
    /\ pc' = "log_next"
    /\ UNCHANGED << startup, running, picam, i, jpeg, resp, stopAt,
                    sleepsSinceStop, capturesSinceStop, calls, cycleOps, jpegUploads >>

\* Lines 266-267: log, then evaluate range(backoff)
LogNext ==
    /\ pc = "log_next"
    /\ i' = 0
    /\ resp' = 0
    /\ pc' = "for"
    /\ UNCHANGED << startup, exc, running, picam, backoff, jpeg, history >>

\* Variant: the wait does not look at running (no lines 268-269).
ForCheck_noBreak ==
    /\ pc = "for"
    /\ pc' = IF i < backoff THEN "sleep" ELSE "while"
    /\ UNCHANGED << startup, exc, running, picam, loopLocals, history >>

\* Lines 267-269: take the next item of range(backoff), break when not running
ForCheck ==
    /\ pc = "for"
    /\ pc' = IF i < backoff /\ running THEN "sleep" ELSE "while"
    /\ UNCHANGED << startup, exc, running, picam, loopLocals, history >>

\* Line 270: time.sleep(1).  A signal handled during the sleep does not cut
\* it short: the handler returns and the sleep is resumed.
Sleep ==
    /\ pc = "sleep"
    /\ i' = i + 1
    /\ sleepsSinceStop' = IF stopAt = "none" THEN 0 ELSE Bump(sleepsSinceStop)
    /\ pc' = "for"
    /\ UNCHANGED << startup, exc, running, picam, backoff, jpeg, resp,
                    lastOutcome, stopAt, capturesSinceStop, calls, cycleOps, jpegUploads >>

\* Line 272 and the end of the script: main() returns, exit status 0
Exit ==
    /\ pc = "exiting"
    /\ exitStatus' = 0
    /\ pc' = "exited"
    /\ UNCHANGED << config, file, exc, running, fingerprint, picam0, picam,
                    loopLocals, history >>

\* Variant: the handler also unwinds the main thread at once (as the default
\* SIGINT handler does by raising), whatever it was doing.
Stop_aborts ==
    /\ pc # "exited"
    /\ running' = FALSE
    /\ stopAt' = IF stopAt = "none" THEN pc ELSE stopAt
    /\ pc' = "exiting"
    /\ UNCHANGED << startup, exc, picam, loopLocals, lastOutcome,
                    sleepsSinceStop, capturesSinceStop, calls, cycleOps, jpegUploads >>

\* Lines 228-231: _stop, run for SIGINT or SIGTERM between any two steps
Stop ==
    /\ pc # "exited"
    /\ running' = FALSE
    /\ stopAt' = IF stopAt = "none" THEN pc ELSE stopAt
    /\ UNCHANGED << startup, pc, exc, picam, loopLocals, lastOutcome,
                    sleepsSinceStop, capturesSinceStop, calls, cycleOps, jpegUploads >>

Next ==
    \/ MakeOuterCamera
    \/ ConfigureAutofocus
    \/ CheckToken
    \/ ObtainFingerprint
    \/ MakeLoopCamera
    \/ InitBackoff
    \/ StartupExcept
    \/ UncaughtSystemExit
    \/ While
    \/ CaptureConfigure
    \/ CaptureStart
    \/ CaptureFile
    \/ CaptureStop
    \/ CaptureRead
    \/ UploadPut
    \/ UploadRaiseForStatus
    \/ ResetBackoff
    \/ ExceptHTTPError
    \/ ExceptException
    \/ LogNext
    \/ ForCheck
    \/ Sleep
    \/ Exit
    \/ Stop

Spec == Init /\ [][Next]_vars

\* ------------------------------------------------- the main thread keeps going

\* The inputs of Init cut down to two base intervals, the environment focus
\* modes "cont" and "focus", and an absent, writable fingerprint file.
InitLive ==
    /\ Init
    /\ INTERVAL_SEC \in {1, 10}
    /\ args_af = NoArgsAf
    /\ PRUSA_AF_MODE \in {"cont", "focus"}
    /\ file = NoFile
    /\ fsWritable

\* Every step of the main thread, that is every action but the signal handler
MainThread ==
    \/ MakeOuterCamera
    \/ ConfigureAutofocus
    \/ CheckToken
    \/ ObtainFingerprint
    \/ MakeLoopCamera
    \/ InitBackoff
    \/ StartupExcept
    \/ UncaughtSystemExit
    \/ While
    \/ CaptureConfigure
    \/ CaptureStart
    \/ CaptureFile
    \/ CaptureStop
    \/ CaptureRead
    \/ UploadPut
    \/ UploadRaiseForStatus
    \/ ResetBackoff
    \/ ExceptHTTPError
    \/ ExceptException
    \/ LogNext
    \/ ForCheck
    \/ Sleep
    \/ Exit

\* The interpreter keeps executing the main thread, and every library call
\* (capture, upload, sleep) returns or raises: the main thread's next step is
\* eventually taken.
SpecLive == InitLive /\ [][Next]_vars /\ WF_vars(MainThread)

\* --------------------------------- get_or_create_fingerprint called in a row

FileChars == {" ", "\n", "a", "1"}

FileTexts == UNION { [1..n -> FileChars] : n \in 0..MaxFileLen }

\* No explicit identity; the file is absent or holds any text over FileChars.
InitFP ==
    /\ INTERVAL_SEC = 10
    /\ PRUSA_TOKEN = <<"t", "k">>
    /\ PRUSA_FINGERPRINT = << >>
    /\ PRUSA_AF_MODE = "cont"
    /\ PRUSA_AF_POSITION = << >>
    /\ args_af = NoArgsAf
    /\ fsWritable \in BOOLEAN
    /\ file \in {NoFile} \cup { [exists |-> TRUE, text |-> t] : t \in FileTexts }
    /\ pc = "provider"
    /\ exc = "none"
    /\ exitStatus = -1
    /\ running = TRUE
    /\ fingerprint = << >>
    /\ picam0 = NoCamera
    /\ picam = NoCamera
    /\ backoff = 0
    /\ i = 0
    /\ jpeg = "unset"
    /\ resp = 0
    /\ lastOutcome = "none"
    /\ stopAt = "none"
    /\ sleepsSinceStop = 0
    /\ capturesSinceStop = 0
    /\ calls = << >>
    /\ cycleOps = [captured |-> FALSE, uploads |-> 0]
    /\ jpegUploads = 0

\* One call of get_or_create_fingerprint() on the file the previous call left
CallProvider ==
    /\ pc = "provider"
    /\ Len(calls) < MaxCalls
    /\ \E uuid \in UUIDs :
          LET r == get_or_create_fingerprint(file, fsWritable, uuid)
          IN  /\ file' = r.file
              /\ exc' = r.raised
              /\ fingerprint' = IF r.raised = "none" THEN r.ret ELSE fingerprint
              /\ calls' = Append(calls, [raised |-> r.raised, ret |-> r.ret,
                                         before |-> file, after |-> r.file])
    /\ UNCHANGED << config, pc, exitStatus, running, picam0, picam, loopLocals,
                    lastOutcome, stopAt, sleepsSinceStop, capturesSinceStop,
                    cycleOps, jpegUploads >>

NextFP == CallProvider

SpecFP == InitFP /\ [][NextFP]_vars

\* ------------------------------------------------------------------ claims

\* Positions inside the while loop of lines 251-270
LoopPcs == {"while", "capture", "cap_start", "cap_capture", "cap_stop", "cap_read",
            "upload", "raise_for_status", "reset", "except", "log_next", "for", "sleep"}

\* Positions inside the wait of lines 267-270
WaitPcs == {"for", "sleep"}

Failures == {"capture_error", "http_error", "transport_error"}

\* C1: whatever the captures and uploads do, control leaves the loop only
\* through the loop condition of line 251 found false, and that only after a
\* stop signal has set running to false; no failed cycle ends the loop.
C1_LoopLeftOnlyOnStop ==
    [][ (pc \in LoopPcs /\ pc' \notin LoopPcs)
        => (pc = "while" /\ ~running /\ stopAt # "none" /\ pc' = "exiting") ]_vars

\* A new cycle starts after a cycle that failed in transport.
C1_Witness == pc = "capture" /\ running /\ lastOutcome = "transport_error"

\* C2: outside the part of capture_jpeg between picam.start() and
\* picam.stop(), the camera session is not started; in particular it is not
\* started when a cycle begins or when an exception reaches the loop.
C2_SessionReleasedOutsideCapture ==
    pc \in (LoopPcs \ {"cap_capture", "cap_stop"}) => ~picam.started

\* C3 as stated: in the loop the backoff lies within [INTERVAL_SEC, 120] for
\* every base interval.
C3_BackoffWithinBaseAndMax ==
    pc \in LoopPcs \cup {"exiting"} => (INTERVAL_SEC <= backoff /\ backoff <= 120)

\* C3 amended: in the loop the backoff lies within [INTERVAL_SEC, 120] for
\* every base interval up to 120; for a base interval above 120 it is either
\* the base interval or 120.
C3_BackoffWithinBoundsUpTo120 ==
    pc \in LoopPcs \cup {"exiting"} =>
        IF INTERVAL_SEC <= 120
        THEN INTERVAL_SEC <= backoff /\ backoff <= 120
        ELSE backoff \in {INTERVAL_SEC, 120}

\* A base interval below 15 waits the lower bound after a failure.
C3_Witness == pc = "sleep" /\ INTERVAL_SEC = 1 /\ backoff = 15

C4_Clamp(x, lo, hi) == IF x < lo THEN lo ELSE IF x > hi THEN hi ELSE x

\* C4: after a failed cycle of any kind the interval is clamp(3 * base, 15,
\* 120), whatever it was before: 30 for base 10, 120 for base 50, 15 for base 1.
C4_FailureInterval ==
    lastOutcome \in Failures =>
        /\ backoff = C4_Clamp(INTERVAL_SEC * 3, 15, 120)
        /\ INTERVAL_SEC = 10 => backoff = 30
        /\ INTERVAL_SEC = 50 => backoff = 120
        /\ INTERVAL_SEC = 1 => backoff = 15

\* The wait after a failed capture with the default base interval.
C4_Witness ==
    pc = "sleep" /\ lastOutcome = "capture_error" /\ INTERVAL_SEC = 10 /\ backoff = 30

\* C5: after a cycle whose capture and upload both succeeded the interval is
\* the base interval.
C5_SuccessResetsInterval == lastOutcome = "success" => backoff = INTERVAL_SEC

\* The wait after a successful cycle.
C5_Witness == pc = "sleep" /\ lastOutcome = "success" /\ INTERVAL_SEC = 50 /\ i = 2

\* C6: when the first stop signal arrives during the wait, at most one
\* time.sleep(1) completes afterwards and no capture is begun.
C6_StopDuringWait ==
    stopAt \in WaitPcs =>
        /\ sleepsSinceStop <= 1
        /\ capturesSinceStop = 0
        /\ pc \in {"for", "sleep", "while", "exiting", "exited"}
        /\ sleepsSinceStop = 1 => pc # "sleep"

\* A 120 second wait stopped during its second sleep: the process has exited
\* with two sleeps done.
C6_Witness ==
    /\ stopAt = "sleep" /\ pc = "exited" /\ exitStatus = 0
    /\ backoff = 120 /\ i = 2 /\ sleepsSinceStop = 1

\* C7: the upload counts as a success exactly for a 2xx status: line 255 is
\* reached only with a 2xx response, and HTTPError only for another status.
C7_SuccessIffStatus2xx ==
    /\ pc = "reset" => resp \in 200..299
    /\ (pc = "except" /\ exc = "HTTPError") => resp \notin 200..299

\* C8 as stated: upload_snapshot never raises to its caller.
C8_UploadNeverRaises == ~(pc = "except" /\ exc \in {"HTTPError", "ConnectionError"})

\* C8 amended: upload_snapshot raises HTTPError exactly for a status in
\* 400..599 and raises on a transport failure; main() catches either in the
\* same cycle, records the failure and goes on to the wait.
C8_UploadFaultsCaughtByLoop ==
    [][ /\ (pc = "raise_for_status" /\ pc' # pc)
            => IF 400 <= resp /\ resp <= 599
               THEN pc' = "except" /\ exc' = "HTTPError"
               ELSE pc' = "reset" /\ exc' = "none"
        /\ (pc = "except" /\ exc \in {"HTTPError", "ConnectionError"} /\ pc' # pc)
            => /\ pc' = "log_next"
               /\ exc' = "none"
               /\ lastOutcome' = IF exc = "HTTPError" THEN "http_error"
                                 ELSE "transport_error"
      ]_vars

\* A 401 response has been caught by the loop.
C8_Witness == pc = "log_next" /\ lastOutcome = "http_error" /\ resp = 401

C9_Decimal(m, k) ==
    [ok |-> TRUE, kind |-> "finite", neg |-> FALSE, mant |-> m, scale |-> k]

\* Position texts that are not numbers
C9_NonNumeric == { << >>, <<"a", "b">>, <<"x">>, <<"1", ".", "2", ".">> }

\* C9: in manual mode, once configure_autofocus has run, a missing or
\* non-numeric position has ended start-up with an error: no camera control
\* was set, no session started, main() not entered; the position "1.2" has
\* been applied as 12/10 and " 07.50" as 75/10, without a ValueError.
C9_ManualFocusValidation ==
    LET cli  == args_af.n > 0
        mode == IF cli THEN Lower(args_af.mode) ELSE PRUSA_AF_MODE
        pos  == IF cli THEN (IF args_af.n > 1 THEN args_af.pos ELSE << >>)
                ELSE PRUSA_AF_POSITION
    IN  (mode \in {"man", "manual"} /\ pc \notin {"parse_args", "configure_autofocus"}) =>
          /\ pos \in C9_NonNumeric =>
                /\ pc \in {"startup_except", "exited"}
                /\ exc = "ValueError"
                /\ exitStatus \in {-1, 1}
                /\ picam0.AfMode = "unset" /\ ~picam0.started
                /\ picam = NoCamera
                /\ fingerprint = << >> /\ backoff = 0 /\ lastOutcome = "none"
          /\ pos = <<"1", ".", "2">> =>
                /\ exc # "ValueError"
                /\ picam0.AfMode = "Manual"
                /\ picam0.LensPosition = C9_Decimal(12, 1)
          /\ pos = <<" ", "0", "7", ".", "5", "0">> =>
                /\ exc # "ValueError"
                /\ picam0.AfMode = "Manual"
                /\ picam0.LensPosition = C9_Decimal(75, 1)

\* Manual mode with "1.2" has been configured and main() has been entered.
C9_Witness ==
    /\ pc = "fingerprint" /\ PRUSA_AF_POSITION = <<"1", ".", "2">>
    /\ picam0.AfMode = "Manual" /\ picam0.LensPosition = C9_Decimal(12, 1)

\* C10: of two calls in a row without explicit identity, when the first
\* returns, the second returns the same identity and leaves the file as the
\* first left it.
C10_IdentityStable ==
    \A k \in 1..(Len(calls) - 1) :
        calls[k].raised = "none" =>
            /\ calls[k + 1].raised = "none"
            /\ calls[k + 1].ret = calls[k].ret
            /\ calls[k + 1].before = calls[k].after
            /\ calls[k + 1].after = calls[k + 1].before

\* Two calls on a file that held only whitespace: the first generated.
C10_Witness ==
    /\ Len(calls) = 2
    /\ calls[1].before = [exists |-> TRUE, text |-> <<" ", "\n">>]
    /\ calls[1].raised = "none"
    /\ calls[2].ret = <<"f", "0">>

\* The mode and position configure_autofocus works with (lines 194-199)
EffectiveMode == IF args_af.n > 0 THEN Lower(args_af.mode) ELSE PRUSA_AF_MODE

EffectivePos ==
    IF args_af.n > 0 THEN (IF args_af.n > 1 THEN args_af.pos ELSE << >>)
    ELSE PRUSA_AF_POSITION

\* Positions from which the loop of main() is still to be entered or has been left
PostStartupPcs == LoopPcs \cup {"make_camera", "init_backoff", "exiting"}

\* C11: with a non-empty PRUSA_FINGERPRINT no step reads, writes or creates
\* the fingerprint file, and from line 243 on the identity main() holds and
\* passes to every upload is PRUSA_FINGERPRINT.
C11_ExplicitIdentityUsedFileUntouched ==
    [][ PRUSA_FINGERPRINT # << >> =>
          /\ file' = file
          /\ calls' = << >>
          /\ pc' \in PostStartupPcs => fingerprint' = PRUSA_FINGERPRINT ]_vars

\* An upload is about to be sent under the explicit identity while the file
\* holds another one.
C11_Witness ==
    /\ pc = "upload" /\ PRUSA_FINGERPRINT = <<"e", "9">> /\ fingerprint = <<"e", "9">>
    /\ file = [exists |-> TRUE, text |-> <<"a", "1">>]

\* C12: without explicit identity, when a new identifier would have to be
\* generated and the storage cannot be created or written, main() never gets
\* past line 243: no identity is held, no camera is made for the loop, nothing
\* is captured or uploaded, and the process does not end with status 0.
C12_UnwritableStorageIsFatal ==
    (/\ PRUSA_FINGERPRINT = << >>
     /\ ~fsWritable
     /\ (~file.exists \/ Strip(file.text) = << >>)) =>
        /\ pc \notin PostStartupPcs
        /\ fingerprint = << >>
        /\ picam = NoCamera
        /\ jpeg = "unset" /\ jpegUploads = 0 /\ lastOutcome = "none"
        /\ exitStatus # 0
        /\ pc = "exited" => exitStatus = 1

\* The file exists but is empty and cannot be written: start-up has failed.
C12_Witness ==
    /\ pc = "exited" /\ exitStatus = 1 /\ exc = "OSError"
    /\ file = [exists |-> TRUE, text |-> << >>] /\ ~fsWritable

KnownModes == {"cont", "continuous", "auto", "af", "man", "manual"}

\* Missing credential, unknown focus mode, or manual mode without a number
StartupFailure ==
    \/ PRUSA_TOKEN = << >>
    \/ EffectiveMode \notin KnownModes
    \/ (EffectiveMode \in {"man", "manual"} /\ EffectivePos \in C9_NonNumeric)

\* C13: with a missing credential, an unknown focus mode or an unparseable
\* manual lens position the process stays before line 243 or in the start-up
\* error exit: the loop is not entered, the fingerprint is not looked up,
\* nothing is captured or uploaded, and the exit status is 1.
C13_StartupFailureNeverEntersLoop ==
    StartupFailure =>
        /\ pc \in {"parse_args", "configure_autofocus", "main", "startup_except", "exited"}
        /\ picam = NoCamera /\ ~picam0.started
        /\ calls = << >> /\ fingerprint = << >>
        /\ jpeg = "unset" /\ jpegUploads = 0 /\ lastOutcome = "none"
        /\ exitStatus # 0
        /\ pc = "exited" => exitStatus = 1

\* The credential is missing while the focus configuration is valid: the
\* process has ended with status 1 on SystemExit.
C13_Witness ==
    /\ pc = "exited" /\ exitStatus = 1 /\ exc = "SystemExit"
    /\ PRUSA_TOKEN = << >> /\ picam0.AfMode = "Manual"

\* C14 as stated: after the first stop signal no capture_jpeg call begins,
\* wherever the signal arrived.
C14_NoCaptureAfterStop == capturesSinceStop = 0

\* C14 amended: after the first stop signal no capture_jpeg call begins,
\* except the one call of the cycle whose loop condition had already been
\* found true when the signal arrived between line 251 and line 253.
C14_OnlyTheCheckedCycleCapturesAfterStop ==
    \/ capturesSinceStop = 0
    \/ capturesSinceStop = 1 /\ stopAt = "capture"

\* Stopped while picam.capture_file ran: the process has ended without
\* another capture.
C14_Witness ==
    stopAt = "cap_capture" /\ pc = "exited" /\ exitStatus = 0 /\ capturesSinceStop = 0

\* The steps by which a cycle goes on from each position of a capture or an upload
C15_NextInCycle(p) ==
    CASE p = "cap_start"        -> {"cap_capture", "except"}
      [] p = "cap_capture"      -> {"cap_stop", "except"}
      [] p = "cap_stop"         -> {"cap_read"}
      [] p = "cap_read"         -> {"upload", "except"}
      [] p = "upload"           -> {"raise_for_status", "except"}
      [] p = "raise_for_status" -> {"reset", "except"}
      [] p = "reset"            -> {"log_next"}
      [] p = "except"           -> {"log_next"}
      [] p = "log_next"         -> {"for"}
      [] OTHER                  -> {}

C15_InFlightPcs == {"cap_start", "cap_capture", "cap_stop", "cap_read", "upload",
                    "raise_for_status", "reset", "except", "log_next"}

\* C15: a stop signal does not move the main thread, and with running false a
\* capture or upload in progress goes on step by step as it would otherwise:
\* a snapshot read back is passed to the upload, the upload runs to its
\* outcome, and the loop is left only from the loop condition reached from
\* the wait.
C15_StopDoesNotAbortInFlightWork ==
    [][ ~running' =>
          /\ (pc \in C15_InFlightPcs /\ pc' # pc) => pc' \in C15_NextInCycle(pc)
          /\ (pc = "cap_read" /\ pc' = "upload") => jpeg' = "bytes"
          /\ (pc' = "exiting" /\ pc' # pc) => pc = "while"
          /\ (pc \in LoopPcs /\ pc' = "while" /\ pc' # pc) => pc = "for" ]_vars

\* The signal came while picam.capture_file ran and the upload of that
\* snapshot has returned with status 200.
C15_Witness ==
    /\ stopAt = "cap_capture" /\ ~running /\ pc = "reset" /\ resp = 200
    /\ cycleOps = [captured |-> TRUE, uploads |-> 1]

\* C16: once running is false it stays false, whatever signals follow, and
\* from any position of the loop with running false the main thread reaches
\* the end of the process with exit status 0.
C16_StopLeadsToExit ==
    /\ [][~running => ~running']_vars
    /\ (~running /\ pc \in LoopPcs) ~> (pc = "exited" /\ exitStatus = 0)

\* Stopped during the upload: the process has ended with status 0.
C16_Witness ==
    stopAt = "upload" /\ ~running /\ pc = "exited" /\ exitStatus = 0

\* C17: in manual mode a position that float() accepts but that is not a
\* finite number ("inf", "nan") ends start-up with a ValueError and is never
\* set as a camera's lens position.
C17_NonFiniteLensPositionRejected ==
    /\ picam0.LensPosition.kind \notin {"inf", "nan"}
    /\ picam.LensPosition.kind \notin {"inf", "nan"}
    /\ (/\ EffectiveMode \in {"man", "manual"}
        /\ EffectivePos \in {<<"i", "n", "f">>, <<"n", "a", "n">>}
        /\ pc \notin {"parse_args", "configure_autofocus"})
       => (exc = "ValueError" /\ pc \in {"startup_except", "exited"})

\* C18: in the loop the camera that capture_jpeg is given carries the focus
\* mode and lens position that configure_autofocus selected.
C18_LoopCameraHasConfiguredFocus ==
    pc \in LoopPcs =>
        /\ picam.AfMode = picam0.AfMode
        /\ picam.LensPosition = picam0.LensPosition

\* Positions inside the call of capture_jpeg of line 253
CapturePcs == {"capture", "cap_start", "cap_capture", "cap_stop", "cap_read"}

\* C19: the upload is entered only from a capture that has just returned its
\* snapshot; a cycle that has submitted has captured; a capture that raises
\* leaves the cycle without upload, and its exception is handled by setting
\* the escalated interval and going to the wait.
C19_UploadOnlyAfterCapture ==
    [][ /\ (pc' = "upload" /\ pc # "upload")
            => (pc = "cap_read" /\ cycleOps'.captured /\ jpeg' = "bytes")
        /\ cycleOps'.uploads >= 1 => cycleOps'.captured
        /\ (pc \in CapturePcs /\ pc' = "except")
            => (cycleOps'.uploads = 0 /\ ~cycleOps'.captured)
        /\ (pc = "except" /\ exc \in {"RuntimeError", "OSError"} /\ pc' # pc)
            => /\ pc' = "log_next"
               /\ lastOutcome' = "capture_error"
               /\ backoff' = C4_Clamp(INTERVAL_SEC * 3, 15, 120)
               /\ cycleOps'.uploads = 0
        /\ (pc = "log_next" /\ pc' # pc) => pc' = "for"
      ]_vars

\* The wait after a failed capture: an earlier snapshot is still held and
\* nothing was submitted in this cycle.
C19_Witness ==
    /\ pc = "sleep" /\ lastOutcome = "capture_error"
    /\ jpeg = "bytes" /\ cycleOps = [captured |-> FALSE, uploads |-> 0]

\* C20: the snapshot held in jpeg has been submitted at most once, and a
\* cycle that has submitted has submitted once, the snapshot it captured.
C20_SnapshotSubmittedAtMostOnce ==
    /\ jpegUploads <= 1
    /\ jpeg = "unset" => jpegUploads = 0
    /\ cycleOps.uploads >= 1 =>
          /\ cycleOps.captured
          /\ cycleOps.uploads = 1
          /\ jpegUploads = 1

\* The cycle after a failed upload has captured anew and submitted that
\* snapshot once.
C20_Witness ==
    /\ pc = "raise_for_status" /\ lastOutcome = "transport_error"
    /\ jpegUploads = 1 /\ cycleOps = [captured |-> TRUE, uploads |-> 1]

====
